---- MODULE Spec2Model ----
(***************************************************************************)
(* The two scripts of the drug-risk demo site: the risk dashboard          *)
(* controller and, further down, the landing page script animations.js.    *)
(*                                                                         *)
(* Risk dashboard controller of the drug-risk demo page.  The dashboard    *)
(* script is the JavaScript embedded in src/README.md (lines 141-533):     *)
(* the local toy formula computeRiskCurve, the conversion of a remote      *)
(* prediction convertAPIResponse, and the asynchronous update pipeline     *)
(* updateAll / fetchFromAPI / animateTextUpdate.                           *)
(*                                                                         *)
(* Number representation.  Every percentage the script produces is a       *)
(* multiple of 0.1 (Math.round(x * 10) / 10), so a percentage is held as   *)
(* the integer number of tenths: 17.9 is 179, the cap 95 is 950.           *)
(* A probability is held in hundredths: 0.7 is 70.                         *)
(*                                                                         *)
(* The model covers one life of the dashboard page, from the initial       *)
(* updateAll() up to the page's own reload after 30 s (lines 510-517).     *)
(***************************************************************************)
EXTENDS Integers, Sequences, FiniteSets

\* ------------------------------------------------------------------------
\* Bounds of the explored input space
\* ------------------------------------------------------------------------
MaxDose == 40      \* the formula is explored for dose 1..MaxDose (and 50)
AgeStep == 45      \* ages explored: AgeStep * k - 10 (and 35)
MaxAgeIdx == 10    \* k ranges over 0..MaxAgeIdx
MaxUpdates == 1    \* input changes one dashboard run explores

\* ------------------------------------------------------------------------
\* Arithmetic helpers
\* ------------------------------------------------------------------------
Max(a, b) == IF a >= b THEN a ELSE b

Min(a, b) == IF a <= b THEN a ELSE b

\* Math.round(n / d) for d > 0: nearest integer, halves towards +infinity.
RoundDiv(n, d) == (2 * n + d) \div (2 * d)

\* Math.log(1 + dose / 20) for dose = 1..100, as round(ln * 10^11) written
\* in three base-10^4 limbs <<high, middle, low>>.
Log1p20 ==
  <<<<48, 7901, 6417>>, <<95, 3101, 7980>>, <<139, 7619, 4238>>, <<182, 3215, 5679>>,
    <<223, 1435, 5131>>, <<262, 3642, 6447>>, <<300, 1045, 9245>>, <<336, 4722, 3662>>,
    <<371, 5635, 5643>>, <<405, 4651, 811>>, <<438, 2549, 3093>>, <<470, 36, 2925>>,
    <<500, 7752, 8791>>, <<530, 6282, 5106>>, <<559, 6157, 8794>>, <<587, 7866, 6490>>,
    <<615, 1856, 3909>>, <<641, 8538, 8617>>, <<667, 8293, 7258>>, <<693, 1471, 8056>>,
    <<717, 8397, 9315>>, <<741, 9373, 4473>>, <<765, 4678, 4214>>, <<788, 4573, 6036>>,
    <<810, 9302, 1622>>, <<832, 9091, 2294>>, <<854, 4153, 2816>>, <<875, 4687, 3735>>,
    <<896, 880, 2456>>, <<916, 2907, 3187>>, <<936, 933, 5917>>, <<955, 5114, 4503>>,
    <<974, 5596, 4000>>, <<993, 2517, 7301>>, <<1011, 6009, 1168>>, <<1029, 6194, 1718>>,
    <<1047, 3189, 9428>>, <<1064, 7107, 3699>>, <<1081, 8051, 7035>>, <<1098, 6122, 8867>>,
    <<1115, 1415, 9062>>, <<1131, 4021, 1149>>, <<1147, 4024, 5284>>, <<1163, 1508, 981>>,
    <<1178, 6549, 9634>>, <<1193, 9224, 6847>>, <<1208, 9603, 4584>>, <<1223, 7754, 3162>>,
    <<1238, 3742, 3104>>, <<1252, 7629, 6850>>, <<1266, 9476, 349>>, <<1280, 9338, 4546>>,
    <<1294, 7271, 6759>>, <<1308, 3328, 1965>>, <<1321, 7558, 3998>>, <<1335, 10, 6673>>,
    <<1348, 731, 4830>>, <<1360, 9765, 5314>>, <<1373, 7155, 7891>>, <<1386, 2943, 6112>>,
    <<1398, 7168, 8112>>, <<1410, 9869, 7371>>, <<1423, 1083, 3424>>, <<1435, 845, 2529>>,
    <<1446, 9189, 8294>>, <<1458, 6150, 2270>>, <<1470, 1758, 4510>>, <<1481, 6045, 4092>>,
    <<1492, 9040, 9618>>, <<1504, 773, 9678>>, <<1515, 1272, 3296>>, <<1526, 563, 350>>,
    <<1536, 8672, 1960>>, <<1547, 5625, 872>>, <<1558, 1446, 1805>>, <<1568, 6159, 1791>>,
    <<1578, 9787, 495>>, <<1589, 2352, 512>>, <<1599, 3875, 7658>>, <<1609, 4379, 1243>>,
    <<1619, 3882, 4329>>, <<1629, 2405, 3973>>, <<1638, 9967, 1468>>, <<1648, 6586, 2559>>,
    <<1658, 2280, 7660>>, <<1667, 7068, 2056>>, <<1677, 965, 6091>>, <<1686, 3989, 5357>>,
    <<1695, 6156, 868>>, <<1704, 7480, 9224>>, <<1713, 7979, 2776>>, <<1722, 7665, 9774>>,
    <<1731, 6555, 4516>>, <<1740, 4661, 7484>>, <<1749, 1998, 5481>>, <<1757, 8579, 1755>>,
    <<1766, 4416, 6124>>, <<1774, 9523, 5091>>, <<1783, 3912, 1956>>, <<1791, 7594, 6923>>>>

clamp95_unclamped(x) == x

\* Math.min(95, x) on tenths.
clamp95(x) == Min(950, x)

\* Math.round(raw * 10) where raw = (n / 10^6) * doseFactor and
\* doseFactor = 1 + Math.log(1 + dose / 20) / 3, i.e.
\* round(n * (3 * 10^11 + ln * 10^11) / (3 * 10^16)), by long
\* multiplication of n = n1 * 10^4 + n0 with the limbs <<d2, d1, d0>>.
RoundTenths(n, dose) ==
  LET n1 == n \div 10000
      n0 == n % 10000
      d2 == 3000 + Log1p20[dose][1]
      d1 == Log1p20[dose][2]
      d0 == Log1p20[dose][3]
      c0 == n0 * d0
      c1 == n0 * d1 + n1 * d0
      c2 == n0 * d2 + n1 * d1
      c3 == n1 * d2
      t1 == c1 + (c0 \div 10000)
      t2 == c2 + (t1 \div 10000)
      t3 == c3 + (t2 \div 10000) + 15000
  IN  (t3 \div 10000) \div 3

\* ------------------------------------------------------------------------
\* The local toy formula
\* ------------------------------------------------------------------------
times_short == <<1, 4, 8, 12>>

times == <<1, 4, 8, 12, 48>>

\* medBase * 100: { sertraline: 0.12, amlodipine: 0.08, metformin: 0.04 }[med] || 0.06
medBase(med) ==
  IF med = "sertraline" THEN 12
  ELSE IF med = "amlodipine" THEN 8
  ELSE IF med = "metformin" THEN 4
  ELSE 6

\* sexMult * 100
sexMult(sex) == IF sex = "female" THEN 126 ELSE 100

ageMult_from40(age) == 100 + Max(0, age - 40)

\* ageMult * 100 = 100 + Math.max(0, age - 30)
ageMult(age) == 100 + Max(0, age - 30)

tFactor_decaying(i) == 100 - i * 6

\* tFactor * 100 of the local formula, i = 0..4
tFactor(i) == 100 + i * 6

reducedDose_floor(dose) == Max(1, (8 * dose) \div 10)

\* Math.max(1, Math.round(dose * 0.8))
reducedDose(dose) == Max(1, RoundDiv(8 * dose, 10))

\* Math.round(((femaleAt50 - maleAt50) / Math.max(maleAt50, 1)) * 100)
relDiffPct(f, m) == RoundDiv(100 * (f - m), Max(m, 10))

\* the threshold test of the recommendation: sex === 'female' && diffPct > 15
needsReduction(sex, diffPct) == sex = "female" /\ diffPct > 15

computeRiskCurve(st) ==
  LET base == medBase(st.med)
      femaleCurve == [i \in 1..Len(times) |->
          clamp95(RoundTenths(base * tFactor(i - 1) * sexMult(st.sex) * ageMult(st.age), st.dose))]
      maleCurve == [i \in 1..Len(times) |->
          clamp95(RoundTenths(base * tFactor(i - 1) * 100 * ageMult(st.age), st.dose))]
      diffPct == relDiffPct(femaleCurve[3], maleCurve[3])
      recommendation ==
          IF needsReduction(st.sex, diffPct)
          THEN [text |-> [mg |-> reducedDose(st.dose), note |-> "optimized for female metabolism"],
                dose |-> reducedDose(st.dose)]
          ELSE [text |-> [mg |-> st.dose, note |-> "no change"], dose |-> st.dose]
      metab == IF st.med = "sertraline" THEN "sertraline slower" ELSE "generic"
  IN  [times |-> times, femaleCurve |-> femaleCurve, maleCurve |-> maleCurve,
       diffPct |-> diffPct, recommendation |-> recommendation, metab |-> metab]

\* ------------------------------------------------------------------------
\* Remote responses
\* ------------------------------------------------------------------------
\* A JSON body.  An absent (undefined) risk_probability or prediction is the
\* empty set, a present one the singleton of its value; an absent label or
\* confidence is the string "undefined".  risk_probability is in hundredths.
Body(err, rp, label, conf, pred) ==
  [error |-> err, risk_probability |-> rp, risk_label |-> label,
   confidence |-> conf, prediction |-> pred]

Direct(p, label, conf) == Body(FALSE, {p}, label, conf, {})

Nested(rp, label, conf) ==
  Body(FALSE, {}, "undefined", "undefined",
       {[risk_probability |-> rp, risk_label |-> label, confidence |-> conf]})

RiskProbs == {0 - 20, 80}

Bodies ==
  {Direct(p, "High", "0.9") : p \in RiskProbs}
    \cup {Direct(50, "undefined", "0.9"),
          Nested({20}, "High", "0.9"), Nested({}, "High", "0.9"),
          Body(FALSE, {}, "undefined", "undefined", {}),
          Body(TRUE, {}, "undefined", "undefined", {})}

\* What one fetch can come back with: a rejected fetch, a non-2xx status, a
\* 2xx response whose body is not JSON, or a 2xx response with a JSON body.
\* The service answers every request of one page life the same way (remote);
\* apart from that any single fetch may be rejected by the network.
Rejected == [net |-> "reject"]

Responses ==
  {Rejected, [net |-> "http", ok |-> FALSE],
   [net |-> "http", ok |-> TRUE, json |-> FALSE]}
    \cup {[net |-> "http", ok |-> TRUE, json |-> TRUE, body |-> b] : b \in Bodies}

Threw(why) == [threw |-> TRUE, why |-> why]

Returned(v) == [threw |-> FALSE, value |-> v]

\* tFactor * 100 of the conversion, i = 0..4
tFactorAPI(i) == 100 + i * 5

\* riskProb > 0.7, the test for "(reduced for high risk)"
highRisk_above80(riskProb) == riskProb > 80

highRisk(riskProb) == riskProb > 70

convertAPIResponse(apiResult, st) ==
  LET direct == apiResult.risk_probability # {}
      nested == apiResult.prediction # {}
                  /\ (CHOOSE q \in apiResult.prediction : TRUE).risk_probability # {}
      src == IF direct THEN apiResult ELSE CHOOSE q \in apiResult.prediction : TRUE
      riskProb == CHOOSE p \in src.risk_probability : TRUE
      riskLabel == src.risk_label
      confidence == src.confidence
      \* baseRisk = riskProb * 100 is riskProb in percent; curve entries in tenths
      femaleCurve == [i \in 1..Len(times) |->
          clamp95(RoundDiv(riskProb * tFactorAPI(i - 1), 10))]
      maleCurve == [i \in 1..Len(times) |->
          clamp95(RoundDiv(riskProb * 8 * tFactorAPI(i - 1), 100))]
      diffPct == relDiffPct(femaleCurve[3], maleCurve[3])
      recommendationText ==
          IF highRisk(riskProb)
          THEN [mg |-> RoundDiv(8 * st.dose, 10), note |-> "reduced for high risk"]
          ELSE IF riskProb > 30
          THEN [mg |-> st.dose, note |-> "monitor closely"]
          ELSE [mg |-> st.dose, note |-> ""]
  IN  IF ~direct /\ ~nested
      THEN Threw("Invalid API response structure")
      ELSE Returned(
             [times |-> times, femaleCurve |-> femaleCurve, maleCurve |-> maleCurve,
              diffPct |-> diffPct,
              recommendation |-> [text |-> recommendationText],
              metab |-> [kind |-> "risk level", label |-> riskLabel,
                         pct |-> riskProb, confidence |-> confidence]])

getMedicationName(medKey) ==
  IF medKey = "sertraline" THEN "Atorvastatin"
  ELSE IF medKey = "amlodipine" THEN "Metformin"
  ELSE IF medKey = "metformin" THEN "Lisinopril"
  ELSE "Atorvastatin"

\* the request body fetchFromAPI posts
apiData(st) ==
  [gender |-> IF st.sex = "female" THEN "Female" ELSE "Male", age |-> st.age,
   medication |-> getMedicationName(st.med), dose |-> st.dose, duration |-> 7]

\* fetchFromAPI from the point where the fetch settles with resp
fetchFromAPI(resp, st) ==
  IF resp.net = "reject" THEN Threw("fetch rejected")
  ELSE IF ~resp.ok THEN Threw("API request failed")
  ELSE IF ~resp.json THEN Threw("invalid JSON")
  ELSE IF resp.body.error THEN Threw("error field")
  ELSE convertAPIResponse(resp.body, st)

\* ------------------------------------------------------------------------
\* Dashboard state
\* ------------------------------------------------------------------------
VARIABLES
  state,      \* the form state { sex, age, med, dose }
  chart,      \* chart.data.datasets[0].data (female) and [1].data (male)
  text,       \* innerHTML of riskDiffVal, recommendText and metabText
  timers,     \* pending 150 ms timers of animateTextUpdate, in firing order
  pending,    \* updateAll calls suspended at "await fetchFromAPI(state)"
  started,    \* number of input changes handled so far
  last,       \* what the latest resumed updateAll assigned to "result"
  remote      \* how the prediction service answers during this page's life

dashVars == <<state, chart, text, timers, pending, started, last, remote>>

\* State of the landing page (src/animations.js); described with its actions.
VARIABLES
  activeStats,       \* indices of the .stat tiles carrying the class 'active'
  activeDots,        \* indices of the indicator dots carrying 'active'
  currentStatIndex,  \* cursor of the autoplay cycle
  autoplay,          \* the autoplay timer: the 1 s timeout, then the 2.5 s interval
  timeouts,          \* pending setTimeout callbacks, in creation order
  ripples,           \* ripple elements attached to the document
  styleAnimation,    \* style.animation of the clickable elements
  ctaTitle,          \* textContent of the .cta-title of the start button
  lastWrite,         \* history: the latest write to the 'active' state
  ticks,             \* history: number of autoplay ticks so far, modulo the tile count
  sinceTick,         \* history: time since DOM ready or since the latest tick
  dataAttrs,         \* data-target and data-suffix of the .count elements
  didAnimate,        \* the latch of the counter animation
  counterObs,        \* the counter observer: "observing", "disconnected", or "none" without one
  cardVisible,       \* whether the stats card is past the observer's threshold
  obsQueue,          \* intersection changes not yet delivered to the counter observer
  countText,         \* textContent of the .count elements
  animations,        \* time since animateCounter started, per element with a frame requested
  starts,            \* history: animateCounter calls per .count element
  loadTimer,         \* the load listener and its 2 s timeout
  settled,           \* history: .count elements that have displayed their final value
  delivered,         \* history: the entries of the callback that started the counters
  revealObserved,    \* targets the reveal observer still observes
  inView,            \* targets carrying the class 'in-view'
  revealVisible,     \* targets currently past the reveal threshold
  revealQueue,       \* intersection entries not yet delivered to the reveal observer
  revealCount        \* history: intersecting entries the reveal callback acted on, per target

indexVars ==
  <<activeStats, activeDots, currentStatIndex, autoplay, timeouts, ripples,
    styleAnimation, ctaTitle, lastWrite, ticks, sinceTick, dataAttrs,
    didAnimate, counterObs, cardVisible, obsQueue, countText, animations,
    starts, loadTimer, settled, delivered, revealObserved, inView, revealVisible,
    revealQueue, revealCount>>

vars == <<dashVars, indexVars>>

statsVars ==
  <<activeStats, activeDots, currentStatIndex, autoplay, timeouts, ripples,
    styleAnimation, ctaTitle, lastWrite, ticks, sinceTick>>

counterVars ==
  <<dataAttrs, didAnimate, counterObs, cardVisible, obsQueue, countText,
    animations, starts, loadTimer, settled, delivered>>

revealVars == <<revealObserved, inView, revealVisible, revealQueue, revealCount>>

\* the parts of the landing page a run does not follow stay as they are
StatsIdle ==
  /\ activeStats = {} /\ activeDots = {} /\ currentStatIndex = 0
  /\ autoplay = [phase |-> "none", due |-> 0]
  /\ timeouts = <<>> /\ ripples = {} /\ styleAnimation = <<>> /\ ctaTitle = ""
  /\ lastWrite = [by |-> "none", target |-> 0] /\ ticks = 0 /\ sinceTick = 0

CountersIdle ==
  /\ dataAttrs = <<>> /\ didAnimate = FALSE /\ counterObs = "none"
  /\ cardVisible = FALSE /\ obsQueue = <<>> /\ countText = <<>>
  /\ animations = <<>> /\ starts = <<>> /\ loadTimer = [phase |-> "none", due |-> 0]
  /\ settled = {} /\ delivered = <<>>

RevealIdle ==
  /\ revealObserved = {} /\ inView = {} /\ revealVisible = {}
  /\ revealQueue = <<>> /\ revealCount = <<>>

\* the landing page is not part of a run of the dashboard
IndexNotLoaded == StatsIdle /\ CountersIdle /\ RevealIdle

\* the dashboard is not part of a run of the landing page
DashboardNotLoaded ==
  /\ state = <<>> /\ chart = <<>> /\ text = <<>> /\ timers = <<>>
  /\ pending = {} /\ started = 0 /\ last = [src |-> "none"] /\ remote = <<>>

labelTimes == <<"1 hour", "4 hours", "8 hours", "12 hours", "48 hours">>

Elements == {"riskDiffVal", "recommendText", "metabText"}

InitialState == [sex |-> "male", age |-> 35, med |-> "sertraline", dose |-> 50]

Sexes == {"male", "female"}

Meds == {"sertraline", "amlodipine", "metformin", "other"}

\* values the form controls are moved to in the dashboard run
FormAges == {70}

FormMeds == {"metformin"}

FormDoses == {1}

\* inputs the formula is explored on
Ages == {InitialState.age} \cup {AgeStep * k - 10 : k \in 0..MaxAgeIdx}

Doses == {InitialState.dose} \cup (1..MaxDose)

FormStates == [sex : Sexes, age : Ages, med : Meds, dose : Doses]

\* animateTextUpdate(element, newContent): one more 150 ms timer
animateTextUpdate(q, element, newContent) ==
  Append(q, [el |-> element, content |-> newContent])

Loading == [kind |-> "loading"]

Failed == [kind |-> "error"]

Shown(v) == [kind |-> "result", v |-> v]

\* the three "loading" calls at the top of updateAll
showLoading(q) ==
  animateTextUpdate(animateTextUpdate(animateTextUpdate(q,
      "riskDiffVal", Loading), "recommendText", Loading), "metabText", Loading)

\* the three result calls at the end of the outer try block
showResult(q, result, st) ==
  animateTextUpdate(animateTextUpdate(animateTextUpdate(q,
      "riskDiffVal", Shown([diffPct |-> result.diffPct, dose |-> st.dose])),
      "recommendText", Shown(result.recommendation.text)),
      "metabText", Shown(result.metab))

\* the three calls of the outer catch block
showError(q) ==
  animateTextUpdate(animateTextUpdate(animateTextUpdate(q,
      "riskDiffVal", Failed), "recommendText", Failed), "metabText", Failed)

innerTry_noCatch(resp, st) ==
  LET o == fetchFromAPI(resp, st)
  IN  IF o.threw THEN o
      ELSE [threw |-> FALSE, src |-> "remote", value |-> o.value]

innerTry_rethrowStructure(resp, st) ==
  LET o == fetchFromAPI(resp, st)
  IN  IF o.threw /\ o.why = "Invalid API response structure" THEN o
      ELSE IF o.threw
      THEN [threw |-> FALSE, src |-> "local", value |-> computeRiskCurve(st)]
      ELSE [threw |-> FALSE, src |-> "remote", value |-> o.value]

\* the inner try/catch of updateAll: the remote result, or on any throw the
\* local formula on the form state
innerTry(resp, st) ==
  LET o == fetchFromAPI(resp, st)
  IN  IF o.threw
      THEN [threw |-> FALSE, src |-> "local", value |-> computeRiskCurve(st)]
      ELSE [threw |-> FALSE, src |-> "remote", value |-> o.value]

NoResult == [src |-> "none"]

Init ==
  /\ state = InitialState
  /\ chart = [female |-> <<0, 0, 0, 0, 0>>, male |-> <<0, 0, 0, 0, 0>>]
  /\ text = [e \in Elements |-> [kind |-> "markup"]]
  /\ timers = showLoading(<<>>)
  /\ pending = {[id |-> 0, request |-> apiData(InitialState)]}
  /\ started = 0
  /\ last = NoResult
  /\ remote \in Responses
  /\ IndexNotLoaded

\* updateAll up to its first await, called with the form state st
updateAll(st) ==
  /\ started < MaxUpdates
  /\ started' = started + 1
  /\ state' = st
  /\ timers' = showLoading(timers)
  /\ pending' = pending \cup {[id |-> started + 1, request |-> apiData(st)]}
  /\ UNCHANGED <<chart, text, last, remote>>
  /\ UNCHANGED indexVars

setSex(s) == updateAll([state EXCEPT !.sex = s])

ageChange(a) == updateAll([state EXCEPT !.age = a])

medChange(m) == updateAll([state EXCEPT !.med = m])

doseInput(d) == updateAll([state EXCEPT !.dose = d])

\* the rest of updateAll, run when the fetch of call p settles with resp
updateAllResume(p, resp) ==
  LET r == innerTry(resp, state)
  IN  /\ pending' = pending \ {p}
      /\ IF r.threw
         THEN /\ timers' = showError(timers)
              /\ last' = [src |-> "error", st |-> state, resp |-> resp]
              /\ UNCHANGED chart
         ELSE /\ chart' = [female |-> r.value.femaleCurve, male |-> r.value.maleCurve]
              /\ timers' = showResult(timers, r.value, state)
              /\ last' = [src |-> r.src, st |-> state, resp |-> resp, result |-> r.value]
      /\ UNCHANGED <<state, text, started, remote>>
      /\ UNCHANGED indexVars

FetchSettles ==
  \E p \in pending :
    \E resp \in {remote, Rejected} :
      updateAllResume(p, resp)

\* the oldest 150 ms timer fires
TimerFires ==
  /\ timers # <<>>
  /\ text' = [text EXCEPT ![Head(timers).el] = Head(timers).content]
  /\ timers' = Tail(timers)
  /\ UNCHANGED <<state, chart, pending, started, last, remote>>
  /\ UNCHANGED indexVars

Next ==
  \/ \E s \in Sexes : setSex(s)
  \/ \E a \in FormAges : ageChange(a)
  \/ \E m \in FormMeds : medChange(m)
  \/ \E d \in FormDoses : doseInput(d)
  \/ FetchSettles
  \/ TimerFires

Spec == Init /\ [][Next]_vars

\* ------------------------------------------------------------------------
\* The local formula on its own: any form state, evaluated once
\* ------------------------------------------------------------------------
FormulaInit ==
  /\ state \in FormStates
  /\ chart = [female |-> <<0, 0, 0, 0, 0>>, male |-> <<0, 0, 0, 0, 0>>]
  /\ text = [e \in Elements |-> [kind |-> "markup"]]
  /\ timers = <<>>
  /\ pending = {}
  /\ started = 0
  /\ last = NoResult
  /\ remote = Rejected
  /\ IndexNotLoaded

Evaluate ==
  /\ last = NoResult
  /\ last' = [src |-> "local", st |-> state, resp |-> Rejected,
              result |-> computeRiskCurve(state)]
  /\ UNCHANGED <<state, chart, text, timers, pending, started, remote>>
  /\ UNCHANGED indexVars

FormulaNext == Evaluate

FormulaSpec == FormulaInit /\ [][FormulaNext]_vars

\* ------------------------------------------------------------------------
\* Overlapping updates against a service whose prediction depends on the
\* request: remote gives the answer to a request by its gender field
\* ------------------------------------------------------------------------
Genders == {"Male", "Female"}

Accepted(b) == [net |-> "http", ok |-> TRUE, json |-> TRUE, body |-> b]

ServiceAnswers ==
  {Rejected, Accepted(Direct(80, "High", "0.9")),
   Accepted(Nested({20}, "High", "0.9"))}

RaceInit ==
  /\ state = InitialState
  /\ chart = [female |-> <<0, 0, 0, 0, 0>>, male |-> <<0, 0, 0, 0, 0>>]
  /\ text = [e \in Elements |-> [kind |-> "markup"]]
  /\ timers = showLoading(<<>>)
  /\ pending = {[id |-> 0, request |-> apiData(InitialState)]}
  /\ started = 0
  /\ last = NoResult
  /\ remote \in [Genders -> ServiceAnswers]
  /\ IndexNotLoaded

\* the fetch of one suspended call settles: with the service's answer to the
\* request that call posted, or rejected by the network
FetchSettlesByRequest ==
  \E p \in pending :
    \E resp \in {remote[p.request.gender], Rejected} :
      updateAllResume(p, resp)

RaceNext ==
  \/ \E s \in Sexes : setSex(s)
  \/ \E a \in FormAges : ageChange(a)
  \/ \E m \in FormMeds : medChange(m)
  \/ \E d \in FormDoses : doseInput(d)
  \/ FetchSettlesByRequest
  \/ TimerFires

RaceSpec == RaceInit /\ [][RaceNext]_vars

\* ------------------------------------------------------------------------
\* Properties
\* ------------------------------------------------------------------------
HasResult == last.src \in {"local", "remote"}

Quiescent == pending = {} /\ timers = <<>>

\* the three texts the result calls of updateAll write for result r at form state st
ResultTexts(r, st) ==
  [e \in Elements |->
     IF e = "riskDiffVal" THEN Shown([diffPct |-> r.diffPct, dose |-> st.dose])
     ELSE IF e = "recommendText" THEN Shown(r.recommendation.text)
     ELSE Shown(r.metab)]

\* C1 as stated: for sex=male, age=35, medication=sertraline, dose=50 the
\* first maleCurve element of the local formula is
\* min(95, round(12 * 1.0 * 1.0 * doseFactor(50) * 10) / 10), the age
\* multiplier at age 35 being 1.0.
C1_ExampleAgeMultOne ==
  (last.src = "local" /\ last.st = InitialState)
    => last.result.maleCurve[1] = Min(950, RoundTenths(12 * 100 * 100 * 100, 50))

\* C1 amended: for sex=male, age=35, medication=sertraline, dose=50 the first
\* maleCurve element of the local formula is
\* min(95, round(12 * 1.0 * 1.05 * doseFactor(50) * 10) / 10) = 17.9, the
\* age multiplier at age 35 being 1 + (35 - 30) / 100 = 1.05.
C1_ExampleAgeMult105 ==
  (last.src = "local" /\ last.st = InitialState)
    => /\ last.result.maleCurve[1] = Min(950, RoundTenths(12 * 100 * 100 * 105, 50))
       /\ last.result.maleCurve[1] = 179

C1_Witness == last.src = "local" /\ last.st = InitialState

\* C5: for every dose >= 1, every supported medication, either sex and any
\* integer age, each of the 5 femaleCurve values and each of the 5 maleCurve
\* values of the local formula lies in [0, 95].
C5_LocalCurvesInRange ==
  (last.src = "local" /\ last.st.dose >= 1
     /\ last.st.med \in {"sertraline", "amlodipine", "metformin"})
    => /\ Len(last.result.femaleCurve) = 5
       /\ Len(last.result.maleCurve) = 5
       /\ \A i \in 1..5 : /\ last.result.femaleCurve[i] \in 0..950
                          /\ last.result.maleCurve[i] \in 0..950

\* a supported input whose female curve reaches the cap while the male one
\* starts below it
C5_Witness ==
  /\ last.src = "local"
  /\ last.st.med = "sertraline"
  /\ last.st.sex = "female"
  /\ last.result.femaleCurve[5] = 950
  /\ last.result.maleCurve[1] < 950
  /\ last.result.maleCurve[1] > 0

\* C19: for every dose >= 1 each curve of the local formula never falls
\* from one time point to the next, and no value exceeds the cap of 95.
C19_LocalCurvesMonotone ==
  (last.src = "local" /\ last.st.dose >= 1)
    => /\ \A i \in 1..4 :
            /\ last.result.femaleCurve[i] <= last.result.femaleCurve[i + 1]
            /\ last.result.maleCurve[i] <= last.result.maleCurve[i + 1]
       /\ \A i \in 1..5 : /\ last.result.femaleCurve[i] <= 950
                          /\ last.result.maleCurve[i] <= 950

\* a male curve that rises at every time point beside a female curve that
\* rises and then stays at the cap
C19_Witness ==
  /\ last.src = "local"
  /\ last.st.dose >= 1
  /\ \A i \in 1..4 : last.result.maleCurve[i] < last.result.maleCurve[i + 1]
  /\ last.result.femaleCurve[1] < last.result.femaleCurve[2]
  /\ last.result.femaleCurve[4] = 950
  /\ last.result.femaleCurve[5] = 950

\* C6: in the local formula the recommended dose differs from the entered
\* dose only when sex=female and diffPct (the relative female-vs-male gap at
\* index 2) is greater than 15; in that case it equals
\* max(1, round(dose * 0.8)), i.e. the integer k >= 1 with
\* -5 < 10 k - 8 dose <= 5; in every other case it is the entered dose.
C6_LocalReductionPolicy ==
  last.src = "local" =>
    LET st == last.st
        r == last.result
        rec == r.recommendation
        gap == r.diffPct
    IN  /\ rec.dose # st.dose => (st.sex = "female" /\ gap > 15)
        /\ (st.sex = "female" /\ gap > 15)
             => /\ rec.dose >= 1
                /\ 10 * rec.dose - 8 * st.dose <= 5
                /\ 10 * rec.dose - 8 * st.dose > 0 - 5
                /\ rec.text.note = "optimized for female metabolism"
        /\ ~(st.sex = "female" /\ gap > 15)
             => (rec.dose = st.dose /\ rec.text.note = "no change")
        /\ rec.text.mg = rec.dose

C6_Witness ==
  /\ last.src = "local"
  /\ last.st.sex = "female"
  /\ last.result.diffPct > 15
  /\ last.result.recommendation.dose < last.st.dose
  /\ last.st.dose = 2 * (last.st.dose \div 2) + 1

\* C2: if the remote call is unreachable (every fetch rejects), then after any
\* sequence of input changes, once all pending promises and 150 ms timers
\* have run, the risk-difference, recommendation and metabolism texts show
\* the computed result and are not left at the loading placeholder.
C2_UnreachableEndsRendered ==
  (remote = Rejected /\ Quiescent)
    => /\ \A e \in Elements : text[e].kind = "result"
       /\ last.src = "local"
       /\ text = ResultTexts(computeRiskCurve(last.st), last.st)

C2_Witness ==
  /\ remote = Rejected
  /\ Quiescent
  /\ started >= 1
  /\ \A e \in Elements : text[e].kind = "result"

\* the failures of the remote call C3 lists
IsFailure(resp) ==
  \/ resp.net = "reject"
  \/ ~resp.ok
  \/ ~resp.json
  \/ resp.body.error
  \/ /\ resp.body.risk_probability = {}
     /\ \A q \in resp.body.prediction : q.risk_probability = {}

\* C3: every failure of the remote call (fetch rejection, non-2xx status, an
\* error field, an unexpected JSON shape, an exception while converting) is
\* caught inside updateAll and replaced by computeRiskCurve on the form
\* state; none of them drives the dashboard into the error state.
C3_FailuresFallBack ==
  /\ LET local == computeRiskCurve(state)
     IN  \A resp \in Responses :
           IsFailure(resp) =>
             LET tried == innerTry(resp, state)
             IN  ~tried.threw /\ tried.value = local
  /\ last.src # "error"
  /\ \A e \in Elements : text[e].kind # "error"
  /\ \A i \in 1..Len(timers) : timers[i].content.kind # "error"
  /\ (HasResult /\ IsFailure(last.resp))
       => /\ last.src = "local"
          /\ last.result = computeRiskCurve(last.st)
          /\ chart = [female |-> last.result.femaleCurve, male |-> last.result.maleCurve]

\* a 2xx JSON response without error field whose conversion threw, and its
\* fallback result on screen
C3_Witness ==
  /\ HasResult
  /\ last.resp.net = "http"
  /\ last.resp.ok
  /\ last.resp.json
  /\ ~last.resp.body.error
  /\ IsFailure(last.resp)
  /\ last.src = "local"
  /\ text = ResultTexts(last.result, last.st)

\* the direct or the nested shape with all of risk_probability, risk_label
\* and confidence present
FullShape(b) ==
  \/ /\ b.risk_probability # {}
     /\ b.risk_label # "undefined"
     /\ b.confidence # "undefined"
  \/ /\ b.risk_probability = {}
     /\ b.prediction # {}
     /\ \A q \in b.prediction : /\ q.risk_probability # {}
                                /\ q.risk_label # "undefined"
                                /\ q.confidence # "undefined"

\* C4: a remote response is accepted only if it has the direct shape
\* {risk_probability, risk_label, confidence} or the same three fields
\* nested under 'prediction'; every other shape is treated as a failure and
\* the local fallback result is rendered instead.
C4_OnlyFullShapeAccepted ==
  last.src = "remote" => FullShape(last.resp.body)

\* "a dose reduction is recommended"
Reduces(rec) ==
  rec.note \in {"optimized for female metabolism", "reduced for high risk"}

C8_CurveLengths ==
  /\ Len(labelTimes) = 5
  /\ Len(chart.female) = Len(labelTimes)
  /\ Len(chart.male) = Len(labelTimes)
  /\ HasResult => /\ Len(last.result.times) = 5
                  /\ Len(last.result.femaleCurve) = Len(last.result.times)
                  /\ Len(last.result.maleCurve) = Len(last.result.times)

\* the chart holding a converted remote result after it held a local one
C8_Witness ==
  /\ last.src = "remote"
  /\ chart.female = last.result.femaleCurve
  /\ chart.male = last.result.maleCurve
  /\ chart.female # <<0, 0, 0, 0, 0>>
  /\ started >= 1

\* C9: every percentage in every Risk Curve Result that reaches the chart,
\* including results converted from a remote response for any accepted
\* risk_probability, is clamped to [0, 95].
C9_ChartClamped ==
  \A i \in 1..Len(chart.female) :
    /\ chart.female[i] \in 0..950
    /\ chart.male[i] \in 0..950

\* C21: once every fetch has settled and every 150 ms timer has fired, the
\* chart and the three texts are the result for the form state as it is
\* now: the conversion of the service's answer to the request of that form
\* state, or the local formula on it.
C21_LatestStateShown ==
  Quiescent =>
    \E resp \in {remote[apiData(state).gender], Rejected} :
      LET r == innerTry(resp, state)
      IN  /\ chart = [female |-> r.value.femaleCurve, male |-> r.value.maleCurve]
          /\ text = ResultTexts(r.value, state)

\* ========================================================================
\* Landing page: src/animations.js
\* ========================================================================
\* Time is counted in units of 100 ms; a timer holds the time left until it
\* is due, and time does not pass while a timer is due.

\* ------------------------------------------------------------------------
\* Bounds
\* ------------------------------------------------------------------------
NumStats == 3      \* .stat tiles in the markup
NumDots == 2       \* .stats-indicator .dot elements in the markup
NumFeatures == 1   \* .feature tiles in the markup
MaxTimeouts == 3   \* setTimeout callbacks pending at once

\* ------------------------------------------------------------------------
\* Delays, in units of 100 ms
\* ------------------------------------------------------------------------
RippleDelay == 6

StatClickDelay == 6

BounceDelay == 8

CtaBounceDelay == 10

CtaStartedDelay == 10

CtaRestoreDelay == 20

AutoplayStart == 10

AutoplayInterval == 25

\* ------------------------------------------------------------------------
\* Stat tiles, ripples and click feedback
\* ------------------------------------------------------------------------
Stats == 0..(NumStats - 1)

Dots == 0..(NumDots - 1)

StatEl(i) == <<"stat", i>>

FeatureEl(j) == <<"feature", j>>

CtaEl == <<"cta-button", 0>>

Clickable ==
  {StatEl(i) : i \in Stats} \cup {FeatureEl(j) : j \in 0..(NumFeatures - 1)}
    \cup {CtaEl}

Timeout(delay, cb, arg) == [due |-> delay, cb |-> cb, arg |-> arg]

\* the ripple createRipple makes: the least identity no attached ripple has
newRipple == CHOOSE n \in 0..Cardinality(ripples) : \A r \in ripples : r.id # n

\* createRipple(event, element): the ripple is appended to the element and
\* a 600 ms timeout is set to remove it
createRipple(element) ==
  [ripples |-> ripples \cup {[id |-> newRipple, parent |-> element]},
   timeouts |-> Append(timeouts, Timeout(RippleDelay, "removeRipple", newRipple))]

\* element.style.animation = name; setTimeout(() => element.style.animation = '', delay)
playAnimation(q, element, name, delay) ==
  /\ styleAnimation' = [styleAnimation EXCEPT ![element] = name]
  /\ timeouts' = Append(q, Timeout(delay, "clearAnimation", element))

activate_keepsOthers(i) ==
  /\ activeStats' = activeStats \cup (IF i \in Stats THEN {i} ELSE {})
  /\ activeDots' = activeDots \cup (IF i \in Dots THEN {i} ELSE {})

activate_firstWins(i) ==
  IF activeStats = {}
    THEN /\ activeStats' = (IF i \in Stats THEN {i} ELSE {})
         /\ activeDots' = (IF i \in Dots THEN {i} ELSE {})
    ELSE UNCHANGED <<activeStats, activeDots>>

\* the classList writes both the click handler and cycleToNextStat make
activate(i) ==
  /\ activeStats' = IF i \in Stats THEN {i} ELSE {}
  /\ activeDots' = IF i \in Dots THEN {i} ELSE {}

StatsInit ==
  /\ \E markup \in {{}, {0}} : activeStats = markup /\ activeDots = markup
  /\ currentStatIndex = 0
  /\ timeouts = <<>>
  /\ ripples = {}
  /\ styleAnimation = [e \in Clickable |-> ""]
  /\ ctaTitle = "Start"
  /\ lastWrite = [by |-> "none", target |-> 0]
  /\ ticks = 0
  /\ sinceTick = 0

statClick_movesCursor(i) ==
  /\ Len(timeouts) + 2 <= MaxTimeouts
  /\ activate(i)
  /\ currentStatIndex' = (i + 1) % NumStats
  /\ ripples' = createRipple(StatEl(i)).ripples
  /\ playAnimation(createRipple(StatEl(i)).timeouts, StatEl(i),
                   "statClick 0.6s ease", StatClickDelay)
  /\ lastWrite' = [by |-> "click", target |-> i]
  /\ UNCHANGED <<autoplay, ctaTitle, ticks, sinceTick>>
  /\ UNCHANGED <<dashVars, counterVars, revealVars>>

\* click on stat tile i
statClick(i) ==
  /\ Len(timeouts) + 2 <= MaxTimeouts
  /\ activate(i)
  /\ ripples' = createRipple(StatEl(i)).ripples
  /\ playAnimation(createRipple(StatEl(i)).timeouts, StatEl(i),
                   "statClick 0.6s ease", StatClickDelay)
  /\ lastWrite' = [by |-> "click", target |-> i]
  /\ UNCHANGED <<currentStatIndex, autoplay, ctaTitle, ticks, sinceTick>>
  /\ UNCHANGED <<dashVars, counterVars, revealVars>>

\* click on feature tile j
featureClick(j) ==
  /\ Len(timeouts) + 2 <= MaxTimeouts
  /\ ripples' = createRipple(FeatureEl(j)).ripples
  /\ playAnimation(createRipple(FeatureEl(j)).timeouts, FeatureEl(j),
                   "statBounce 0.8s ease", BounceDelay)
  /\ UNCHANGED <<activeStats, activeDots, currentStatIndex, autoplay,
                 ctaTitle, lastWrite, ticks, sinceTick>>
  /\ UNCHANGED <<dashVars, counterVars, revealVars>>

\* the click handler of the start button
ctaClicked ==
  /\ ripples' = createRipple(CtaEl).ripples
  /\ styleAnimation' = [styleAnimation EXCEPT ![CtaEl] = "statBounce 1s ease"]
  /\ timeouts' = createRipple(CtaEl).timeouts
                   \o <<Timeout(CtaBounceDelay, "clearAnimation", CtaEl),
                        Timeout(CtaStartedDelay, "ctaStarted", ctaTitle)>>
  /\ ctaTitle' = "Loading..."
  /\ UNCHANGED <<activeStats, activeDots, currentStatIndex, autoplay,
                 lastWrite, ticks, sinceTick>>
  /\ UNCHANGED <<dashVars, counterVars, revealVars>>

\* click on the start button
ctaClick ==
  /\ Len(timeouts) + 3 <= MaxTimeouts
  /\ ctaClicked

Keys == {"Enter", " ", "Tab"}

\* keydown with the focus on element focused: Enter and space click a
\* focused stat tile, feature tile or start button
keydown(key, focused) ==
  /\ key \in {"Enter", " "}
  /\ focused[1] \in {"stat", "feature", "cta-button"}
  /\ IF focused[1] = "stat" THEN statClick(focused[2])
     ELSE IF focused[1] = "feature" THEN featureClick(focused[2])
     ELSE ctaClick

\* the timeout that runs next: the oldest one among those due
NextDue ==
  CHOOSE k \in 1..Len(timeouts) :
    /\ timeouts[k].due = 0
    /\ \A j \in 1..(k - 1) : timeouts[j].due # 0

SomeDue == \E k \in 1..Len(timeouts) : timeouts[k].due = 0

Without(q, k) == SubSeq(q, 1, k - 1) \o SubSeq(q, k + 1, Len(q))

removeRipple_leavesRipple ==
  /\ SomeDue
  /\ timeouts[NextDue].cb = "removeRipple"
  /\ timeouts' = Without(timeouts, NextDue)
  /\ UNCHANGED <<activeStats, activeDots, currentStatIndex, autoplay, ripples,
                 styleAnimation, ctaTitle, lastWrite, ticks, sinceTick>>
  /\ UNCHANGED <<dashVars, counterVars, revealVars>>

\* if (ripple.parentNode) ripple.parentNode.removeChild(ripple)
removeRipple ==
  /\ SomeDue
  /\ timeouts[NextDue].cb = "removeRipple"
  /\ ripples' = {r \in ripples : r.id # timeouts[NextDue].arg}
  /\ timeouts' = Without(timeouts, NextDue)
  /\ UNCHANGED <<activeStats, activeDots, currentStatIndex, autoplay,
                 styleAnimation, ctaTitle, lastWrite, ticks, sinceTick>>
  /\ UNCHANGED <<dashVars, counterVars, revealVars>>

\* element.style.animation = ''
clearAnimation ==
  /\ SomeDue
  /\ timeouts[NextDue].cb = "clearAnimation"
  /\ styleAnimation' = [styleAnimation EXCEPT ![timeouts[NextDue].arg] = ""]
  /\ timeouts' = Without(timeouts, NextDue)
  /\ UNCHANGED <<activeStats, activeDots, currentStatIndex, autoplay, ripples,
                 ctaTitle, lastWrite, ticks, sinceTick>>
  /\ UNCHANGED <<dashVars, counterVars, revealVars>>

\* the 1 s timeout of the start button: show the confirmation, restore later
ctaStarted ==
  /\ SomeDue
  /\ timeouts[NextDue].cb = "ctaStarted"
  /\ ctaTitle' = "Started!"
  /\ timeouts' = Append(Without(timeouts, NextDue),
                        Timeout(CtaRestoreDelay, "ctaRestore", timeouts[NextDue].arg))
  /\ UNCHANGED <<activeStats, activeDots, currentStatIndex, autoplay, ripples,
                 styleAnimation, lastWrite, ticks, sinceTick>>
  /\ UNCHANGED <<dashVars, counterVars, revealVars>>

\* the 2 s timeout of the start button: put back the title read at the click
ctaRestore ==
  /\ SomeDue
  /\ timeouts[NextDue].cb = "ctaRestore"
  /\ ctaTitle' = timeouts[NextDue].arg
  /\ timeouts' = Without(timeouts, NextDue)
  /\ UNCHANGED <<activeStats, activeDots, currentStatIndex, autoplay, ripples,
                 styleAnimation, lastWrite, ticks, sinceTick>>
  /\ UNCHANGED <<dashVars, counterVars, revealVars>>

\* cycleToNextStat()
cycleToNextStat ==
  /\ activate(currentStatIndex)
  /\ currentStatIndex' = (currentStatIndex + 1) % NumStats
  /\ lastWrite' = [by |-> "tick", target |-> currentStatIndex]
  /\ ticks' = (ticks + 1) % NumStats
  /\ UNCHANGED <<timeouts, ripples, styleAnimation, ctaTitle>>
  /\ UNCHANGED <<dashVars, counterVars, revealVars>>

\* the autoplay timer fires: the 1 s timeout calls cycleToNextStat and starts
\* the 2.5 s interval, the interval calls cycleToNextStat
autoplayFires ==
  /\ autoplay.phase \in {"timeout", "interval"}
  /\ autoplay.due = 0
  /\ cycleToNextStat
  /\ autoplay' = [phase |-> "interval", due |-> AutoplayInterval]
  /\ sinceTick' = 0

\* the autoplay timer where its timing is not followed: it may fire at any time
autoplayFiresUntimed ==
  /\ autoplay.phase = "untimed"
  /\ cycleToNextStat
  /\ UNCHANGED <<autoplay, sinceTick>>

\* 100 ms pass
StatsTimePasses ==
  /\ autoplay.due > 0
  /\ ~SomeDue
  /\ autoplay' = [autoplay EXCEPT !.due = @ - 1]
  /\ timeouts' = [k \in 1..Len(timeouts) |-> [timeouts[k] EXCEPT !.due = @ - 1]]
  /\ sinceTick' = sinceTick + 1
  /\ UNCHANGED <<activeStats, activeDots, currentStatIndex, ripples,
                 styleAnimation, ctaTitle, lastWrite, ticks>>
  /\ UNCHANGED <<dashVars, counterVars, revealVars>>

\* 100 ms pass, the autoplay timer not followed
FeedbackTimePasses ==
  /\ timeouts # <<>>
  /\ ~SomeDue
  /\ timeouts' = [k \in 1..Len(timeouts) |-> [timeouts[k] EXCEPT !.due = @ - 1]]
  /\ UNCHANGED <<activeStats, activeDots, currentStatIndex, autoplay, ripples,
                 styleAnimation, ctaTitle, lastWrite, ticks, sinceTick>>
  /\ UNCHANGED <<dashVars, counterVars, revealVars>>

\* The stat tiles: clicks, keyboard and the timed autoplay cycle
StatsNext ==
  \/ \E i \in Stats : statClick(i)
  \/ \E key \in Keys, i \in Stats : keydown(key, StatEl(i))
  \/ removeRipple
  \/ clearAnimation
  \/ autoplayFires
  \/ StatsTimePasses

StatsPageInit ==
  /\ StatsInit
  /\ autoplay = [phase |-> "timeout", due |-> AutoplayStart]
  /\ CountersIdle /\ RevealIdle /\ DashboardNotLoaded

\* timers run when they are due and time goes on
StatsFairness ==
  /\ WF_vars(autoplayFires)
  /\ WF_vars(StatsTimePasses)
  /\ WF_vars(removeRipple)
  /\ WF_vars(clearAnimation)

StatsSpec == StatsPageInit /\ [][StatsNext]_vars /\ StatsFairness

\* The click feedback of the elements that get a ripple; the autoplay cycle
\* runs along without its timing being followed. The double click on a tile
\* and the click on the logo, which only set style.animation, are not followed.
FeedbackNext ==
  \/ \E i \in Stats : statClick(i)
  \/ \E j \in 0..(NumFeatures - 1) : featureClick(j)
  \/ ctaClick
  \/ \E key \in Keys, focused \in Clickable : keydown(key, focused)
  \/ removeRipple
  \/ clearAnimation
  \/ ctaStarted
  \/ ctaRestore
  \/ autoplayFiresUntimed
  \/ FeedbackTimePasses

FeedbackInit ==
  /\ StatsInit
  /\ autoplay = [phase |-> "untimed", due |-> 0]
  /\ CountersIdle /\ RevealIdle /\ DashboardNotLoaded

FeedbackSpec == FeedbackInit /\ [][FeedbackNext]_vars

\* The start button on its own, with room for the timers of two clicks that
\* overlap
ctaClickAgain ==
  /\ Len(timeouts) + 3 <= 2 * MaxTimeouts
  /\ ctaClicked

CtaNext ==
  \/ ctaClickAgain
  \/ removeRipple
  \/ clearAnimation
  \/ ctaStarted
  \/ ctaRestore
  \/ FeedbackTimePasses

CtaSpec == FeedbackInit /\ [][CtaNext]_vars

\* ------------------------------------------------------------------------
\* Properties of the stat tiles
\* ------------------------------------------------------------------------
Written == lastWrite.by # "none"

\* C11: once a click or an autoplay tick has written the active class,
\* exactly one stat tile carries it, no indicator dot other than the one of
\* that tile carries it, and right after a click on tile i the tile is i and
\* the dot is dot i when there is one.
C11_ExclusiveActivation ==
  Written =>
    /\ Cardinality(activeStats) = 1
    /\ activeDots \subseteq activeStats
    /\ Cardinality(activeDots) <= 1
    /\ lastWrite.by = "click" =>
         /\ lastWrite.target \in activeStats
         /\ lastWrite.target \in Dots => lastWrite.target \in activeDots

\* a click on tile 1 took the class from tile 0, which the first tick had set
C11_Witness ==
  /\ ticks = 1
  /\ lastWrite = [by |-> "click", target |-> 1]
  /\ activeStats = {1}
  /\ activeDots = {1}

\* C12: the active tile and dot are always those of the last write, click or
\* tick alike, and a write that names the tile already active changes nothing.
C12_LastWriteWins ==
  /\ [](Written => /\ activeStats = {lastWrite.target}
                   /\ activeDots = {lastWrite.target} \cap Dots)
  /\ [][(Written /\ lastWrite'.target = lastWrite.target)
          => UNCHANGED <<activeStats, activeDots>>]_vars

\* a tick has overwritten a click on another tile made less than 600 ms before
C12_Witness ==
  /\ lastWrite.by = "tick"
  /\ activeStats = {lastWrite.target}
  /\ \E r \in ripples :
       /\ r.parent[1] = "stat"
       /\ r.parent[2] # lastWrite.target

\* C13: the cursor stays in 0..n-1 and equals the number of ticks so far
\* modulo n, tick k activates tile k mod n, the first tick comes 1 s after
\* the page is ready and each next one 2.5 s after the one before, nothing
\* but a tick moves the cursor, and every tile is activated by a tick again
\* and again.
C13_RoundRobin ==
  /\ [](currentStatIndex \in Stats /\ currentStatIndex = ticks)
  /\ [][ticks' # ticks =>
          /\ lastWrite' = [by |-> "tick", target |-> ticks]
          /\ activeStats' = {ticks}
          /\ sinceTick = (IF autoplay.phase = "timeout" THEN AutoplayStart
                                                       ELSE AutoplayInterval)]_vars
  /\ [][ticks' = ticks => currentStatIndex' = currentStatIndex]_vars
  /\ \A i \in Stats : []<>(lastWrite = [by |-> "tick", target |-> i])

\* the cycle has wrapped around: the tick on the last tile has just run
C13_Witness ==
  /\ lastWrite = [by |-> "tick", target |-> NumStats - 1]
  /\ currentStatIndex = 0
  /\ sinceTick = 0
  /\ autoplay.phase = "interval"

\* ------------------------------------------------------------------------
\* Properties of the ripples
\* ------------------------------------------------------------------------
RemovalTimers(id) ==
  {k \in 1..Len(timeouts) : timeouts[k].cb = "removeRipple" /\ timeouts[k].arg = id}

\* C20: every attached ripple, whichever element was clicked, has exactly
\* one removal timeout pending, due at most 600 ms from now, and every
\* pending removal timeout is that of an attached ripple; so no ripple is
\* left once no timeout is pending. A ripple leaves the document only when
\* its removal timeout is due, one ripple per timeout.
C20_RipplesRemoveThemselves ==
  /\ [](/\ \A r \in ripples :
             /\ r.parent \in Clickable
             /\ Cardinality(RemovalTimers(r.id)) = 1
             /\ \A k \in RemovalTimers(r.id) : timeouts[k].due <= RippleDelay
        /\ \A k \in 1..Len(timeouts) :
             timeouts[k].cb = "removeRipple" =>
               \E r \in ripples : r.id = timeouts[k].arg
        /\ \A r1, r2 \in ripples : r1.id = r2.id => r1 = r2
        /\ timeouts = <<>> => ripples = {})
  /\ [][\A r \in ripples :
          r \notin ripples' =>
            /\ ripples' = ripples \ {r}
            /\ \E k \in RemovalTimers(r.id) : timeouts[k].due = 0
            /\ Len(timeouts') = Len(timeouts) - 1]_vars

\* the ripple of the start button is gone while the button still shows the
\* loading title, that is between 600 ms and 1 s after the click
C20_Witness ==
  /\ ctaTitle = "Loading..."
  /\ ripples = {}
  /\ \E k \in 1..Len(timeouts) : timeouts[k].cb = "ctaStarted" /\ timeouts[k].due < 4

\* ------------------------------------------------------------------------
\* The counters of the stats card
\* ------------------------------------------------------------------------
NumCounters == 2   \* .count elements in the markup
MaxEntries == 3    \* intersection entries waiting for one callback

\* The clock of the counters goes in steps of 200 ms.
\* animateCounter(el, t, suffix, 1200)
AnimDuration == 6

\* setTimeout(..., 2000) of the load listener
FallbackDelay == 10

Counters == 1..NumCounters

\* data-target as written in the markup (integer part and the digits after
\* the point, present or not) and data-suffix ('' when missing)
Attrs ==
  {[present |-> TRUE, int |-> 70, frac |-> <<>>, suffix |-> "%"],
   [present |-> TRUE, int |-> 2, frac |-> <<5>>, suffix |-> "x"],
   [present |-> TRUE, int |-> 2, frac |-> <<5>>, suffix |-> "%"],
   [present |-> FALSE, int |-> 0, frac |-> <<>>, suffix |-> ""]}

\* a text: the digits before and after the point, then the suffix
Text(int, frac, suffix) == [int |-> int, frac |-> frac, suffix |-> suffix]

\* the text of a .count element in the markup
InitialText == Text(0, <<>>, "")

\* parseFloat(el.getAttribute('data-target')) || 0, in tenths
parseTarget(attr) ==
  IF attr.present
    THEN attr.int * 10 + (IF attr.frac = <<>> THEN 0 ELSE attr.frac[1])
    ELSE 0

\* (1 - Math.pow(1 - t, 3)) * duration^3 with t = min(1, elapsed / duration)
easeOutCubic(elapsed) ==
  AnimDuration * AnimDuration * AnimDuration
    - (AnimDuration - Min(elapsed, AnimDuration))
        * (AnimDuration - Min(elapsed, AnimDuration))
        * (AnimDuration - Min(elapsed, AnimDuration))

\* n.toFixed(1) of a number of tenths
toFixed1(tenths) == [int |-> tenths \div 10, frac |-> <<tenths % 10>>]

\* the text step(now) writes, elapsed after the start of the animation
step(attr, elapsed) ==
  IF attr.suffix = "x"
    THEN Text(toFixed1(RoundDiv(parseTarget(attr) * easeOutCubic(elapsed),
                                easeOutCubic(AnimDuration))).int,
              toFixed1(RoundDiv(parseTarget(attr) * easeOutCubic(elapsed),
                                easeOutCubic(AnimDuration))).frac,
              attr.suffix)
    ELSE Text(RoundDiv(parseTarget(attr) * easeOutCubic(elapsed),
                       10 * easeOutCubic(AnimDuration)),
              <<>>, attr.suffix)

\* the text the load fallback writes: the attribute as written, or its
\* value to one decimal for the suffix 'x'
fallbackText(attr) ==
  IF attr.suffix = "x"
    THEN Text(toFixed1(parseTarget(attr)).int, toFixed1(parseTarget(attr)).frac,
              attr.suffix)
    ELSE Text(attr.int, attr.frac, attr.suffix)

\* animateCounter for each of countEls: a first frame is requested
animateCounter(els) == [el \in els |-> 0]

shouldStart_ignoresLatch(isIntersecting, latch) == isIntersecting

\* entry.isIntersecting && !didAnimate
shouldStart(isIntersecting, latch) == isIntersecting /\ ~latch

\* entries.forEach(...): the latch and the number of times the counters were
\* started after the entries have been gone through
RECURSIVE forEachEntry(_, _)
forEachEntry(entries, acc) ==
  IF entries = <<>> THEN acc
  ELSE IF shouldStart(Head(entries), acc.didAnimate)
         THEN forEachEntry(Tail(entries),
                           [didAnimate |-> TRUE, started |-> acc.started + 1])
         ELSE forEachEntry(Tail(entries), acc)

\* the state after the DOMContentLoaded handler: with an observer the card
\* is observed and its first entry is on its way, without one the counters
\* have been started
CounterInit ==
  /\ dataAttrs \in [Counters -> Attrs]
  /\ didAnimate = FALSE
  /\ cardVisible \in BOOLEAN
  /\ countText = [el \in Counters |-> InitialText]
  /\ loadTimer = [phase |-> "waiting", due |-> 0]
  /\ settled = {}
  /\ delivered = <<>>
  /\ \/ /\ counterObs = "observing"
        /\ obsQueue = <<cardVisible>>
        /\ animations = <<>>
        /\ starts = [el \in Counters |-> 0]
     \/ /\ counterObs = "none"
        /\ obsQueue = <<>>
        /\ animations = animateCounter(Counters)
        /\ starts = [el \in Counters |-> 1]

\* the stats card crosses the 0.3 threshold, in or out, while the observer
\* watches it; crossings nobody watches are not followed
cardCrosses ==
  /\ counterObs = "observing"
  /\ Len(obsQueue) < MaxEntries
  /\ cardVisible' = ~cardVisible
  /\ obsQueue' = Append(obsQueue, ~cardVisible)
  /\ UNCHANGED <<dataAttrs, didAnimate, counterObs, countText, animations,
                 starts, loadTimer, settled, delivered>>
  /\ UNCHANGED <<dashVars, statsVars, revealVars>>

\* the callback of the counter observer, with all entries queued so far
intersectionCallback ==
  /\ counterObs = "observing"
  /\ obsQueue # <<>>
  /\ LET after == forEachEntry(obsQueue, [didAnimate |-> didAnimate, started |-> 0])
     IN  /\ didAnimate' = after.didAnimate
         /\ IF after.started > 0
              THEN /\ animations' = animateCounter(Counters)
                   /\ starts' = [el \in Counters |-> starts[el] + after.started]
                   /\ counterObs' = "disconnected"
                   /\ delivered' = obsQueue
              ELSE UNCHANGED <<animations, starts, counterObs, delivered>>
  /\ obsQueue' = <<>>
  /\ UNCHANGED <<dataAttrs, cardVisible, countText, loadTimer, settled>>
  /\ UNCHANGED <<dashVars, statsVars, revealVars>>

\* an animation frame: every requested step runs, and asks for another
\* frame while t < 1
animationFrame ==
  /\ DOMAIN animations # {}
  /\ countText' = [el \in Counters |->
                     IF el \in DOMAIN animations
                       THEN step(dataAttrs[el], animations[el])
                       ELSE countText[el]]
  /\ animations' = [el \in {e \in DOMAIN animations : animations[e] < AnimDuration}
                      |-> animations[el]]
  /\ settled' = settled \cup {e \in DOMAIN animations : animations[e] >= AnimDuration}
  /\ UNCHANGED <<dataAttrs, didAnimate, counterObs, cardVisible, obsQueue,
                 starts, loadTimer, delivered>>
  /\ UNCHANGED <<dashVars, statsVars, revealVars>>

\* the load event: the listener sets the 2 s timeout
load ==
  /\ loadTimer.phase = "waiting"
  /\ loadTimer' = [phase |-> "timeout", due |-> FallbackDelay]
  /\ UNCHANGED <<dataAttrs, didAnimate, counterObs, cardVisible, obsQueue,
                 countText, animations, starts, settled, delivered>>
  /\ UNCHANGED <<dashVars, statsVars, revealVars>>

fallback_whenAnimated ==
  /\ loadTimer.phase = "timeout"
  /\ loadTimer.due = 0
  /\ IF didAnimate
       THEN /\ countText' = [el \in Counters |-> fallbackText(dataAttrs[el])]
            /\ settled' = Counters
       ELSE UNCHANGED <<countText, settled>>
  /\ loadTimer' = [phase |-> "done", due |-> 0]
  /\ UNCHANGED <<dataAttrs, didAnimate, counterObs, cardVisible, obsQueue,
                 animations, starts, delivered>>
  /\ UNCHANGED <<dashVars, statsVars, revealVars>>

\* the 2 s timeout of the load listener
fallback ==
  /\ loadTimer.phase = "timeout"
  /\ loadTimer.due = 0
  /\ IF ~didAnimate
       THEN /\ countText' = [el \in Counters |-> fallbackText(dataAttrs[el])]
            /\ settled' = Counters
       ELSE UNCHANGED <<countText, settled>>
  /\ loadTimer' = [phase |-> "done", due |-> 0]
  /\ UNCHANGED <<dataAttrs, didAnimate, counterObs, cardVisible, obsQueue,
                 animations, starts, delivered>>
  /\ UNCHANGED <<dashVars, statsVars, revealVars>>

\* 200 ms pass while the fallback timeout or an animation is running
CounterTimePasses ==
  /\ ~(loadTimer.phase = "timeout" /\ loadTimer.due = 0)
  /\ \/ loadTimer.phase = "timeout"
     \/ \E el \in DOMAIN animations : animations[el] < AnimDuration
  /\ loadTimer' = IF loadTimer.phase = "timeout"
                    THEN [loadTimer EXCEPT !.due = @ - 1]
                    ELSE loadTimer
  /\ animations' = [el \in DOMAIN animations |-> Min(animations[el] + 1, AnimDuration)]
  /\ UNCHANGED <<dataAttrs, didAnimate, counterObs, cardVisible, obsQueue,
                 countText, starts, settled, delivered>>
  /\ UNCHANGED <<dashVars, statsVars, revealVars>>

CounterNext ==
  \/ cardCrosses
  \/ intersectionCallback
  \/ animationFrame
  \/ load
  \/ fallback
  \/ CounterTimePasses

CounterPageInit == CounterInit /\ StatsIdle /\ RevealIdle /\ DashboardNotLoaded

\* the load event fires, timers and animation frames keep running, queued
\* entries are delivered
CounterFairness ==
  /\ WF_vars(intersectionCallback)
  /\ WF_vars(animationFrame)
  /\ WF_vars(load)
  /\ WF_vars(fallback)
  /\ WF_vars(CounterTimePasses)

CounterSpec == CounterPageInit /\ [][CounterNext]_vars /\ CounterFairness

\* ------------------------------------------------------------------------
\* Properties of the counters
\* ------------------------------------------------------------------------
\* C14: animateCounter is started at most once for each counter element,
\* whatever entries the observer's callbacks carry; where an observer
\* exists the latch is set by the time of the start, and once set the
\* latch stays set.
C14_AnimatedAtMostOnce ==
  /\ [](\A el \in Counters :
          /\ starts[el] <= 1
          /\ (counterObs # "none" /\ starts[el] = 1) => didAnimate)
  /\ [][didAnimate => didAnimate']_vars
  /\ [][\A el \in Counters : starts'[el] > starts[el] => ~didAnimate /\ didAnimate']_vars

\* one callback carried the card entering, leaving and entering again
C14_Witness ==
  /\ delivered = <<TRUE, FALSE, TRUE>>
  /\ didAnimate
  /\ counterObs = "disconnected"
  /\ \A el \in Counters : starts[el] = 1

FallbackStep == loadTimer.phase = "timeout" /\ loadTimer'.phase = "done"

\* C15: when the 2 s timeout of the load listener runs after the counter
\* animation has been started, it leaves every counter's text unchanged.
C15_FallbackOnlyIfNeverStarted ==
  [][(FallbackStep /\ \E el \in Counters : starts[el] > 0)
       => countText' = countText]_vars

\* C16: the text of a counter that has displayed its final value, by the
\* last frame of its animation or by the fallback, does not change again.
C16_NoMutationAfterCompletion ==
  [][\A el \in settled : countText'[el] = countText[el]]_vars

\* the step in which the last frame of el's animation runs
LastFrame(el) == el \in DOMAIN animations /\ el \notin DOMAIN animations'

\* C23: the text the last frame of a counter's animation writes is the text
\* the timed fallback writes for the same data-target and data-suffix.
C23_LastFrameWritesFallbackText ==
  [][\A el \in Counters :
       LastFrame(el) => countText'[el] = fallbackText(dataAttrs[el])]_vars

FinalTexts(el) == {step(dataAttrs[el], AnimDuration), fallbackText(dataAttrs[el])}

\* C17: with or without an observer, whether or not the card is ever
\* visible, every counter comes to display its final value with its suffix,
\* and from some point on displays nothing else.
C17_CountersReachTarget ==
  \A el \in Counters : <>[](countText[el] \in FinalTexts(el))

\* the card was never visible and the fallback has written the value
C17_Witness ==
  /\ counterObs = "observing"
  /\ ~didAnimate
  /\ loadTimer.phase = "done"
  /\ \A el \in Counters : countText[el] = fallbackText(dataAttrs[el])
  /\ \E el \in Counters : countText[el] # InitialText

\* ------------------------------------------------------------------------
\* The entrance reveal
\* ------------------------------------------------------------------------
NumTargets == 2    \* elements matched by animTargets

Targets == 1..NumTargets

Entry(target, isIntersecting) == [target |-> target, isIntersecting |-> isIntersecting]

\* io.observe(t) for every target: the observer reports each target's
\* state once to begin with
firstEntries(visible) == [t \in Targets |-> Entry(t, t \in visible)]

\* the state after the DOMContentLoaded handler: with an observer every
\* target is observed, without one every target is revealed at once
RevealInit ==
  /\ revealVisible \in SUBSET Targets
  /\ revealCount = [t \in Targets |-> 0]
  /\ \/ /\ revealObserved = Targets
        /\ inView = {}
        /\ revealQueue = firstEntries(revealVisible)
     \/ /\ revealObserved = {}
        /\ inView = Targets
        /\ revealQueue = <<>>

\* an observed target crosses the 0.15 threshold, in or out
targetCrosses(t) ==
  /\ t \in revealObserved
  /\ Len(revealQueue) < NumTargets + MaxEntries
  /\ revealVisible' = IF t \in revealVisible THEN revealVisible \ {t}
                                             ELSE revealVisible \cup {t}
  /\ revealQueue' = Append(revealQueue, Entry(t, t \notin revealVisible))
  /\ UNCHANGED <<revealObserved, inView, revealCount>>
  /\ UNCHANGED <<dashVars, statsVars, counterVars>>

revealEntry_keepsObserving(acc, e) ==
  IF e.isIntersecting
    THEN [inView |-> acc.inView \cup {e.target},
          observed |-> acc.observed,
          count |-> [acc.count EXCEPT ![e.target] = Min(@ + 1, MaxEntries)]]
    ELSE acc

\* if (e.isIntersecting) { e.target.classList.add('in-view'); io.unobserve(e.target) }
revealEntry(acc, e) ==
  IF e.isIntersecting
    THEN [inView |-> acc.inView \cup {e.target},
          observed |-> acc.observed \ {e.target},
          count |-> [acc.count EXCEPT ![e.target] = @ + 1]]
    ELSE acc

\* entries.forEach(...) of the reveal observer
RECURSIVE forEachReveal(_, _)
forEachReveal(entries, acc) ==
  IF entries = <<>> THEN acc
  ELSE forEachReveal(Tail(entries), revealEntry(acc, Head(entries)))

\* the callback of the reveal observer, with all entries queued so far
revealCallback ==
  /\ revealQueue # <<>>
  /\ LET after == forEachReveal(revealQueue,
                                [inView |-> inView, observed |-> revealObserved,
                                 count |-> revealCount])
     IN  /\ inView' = after.inView
         /\ revealObserved' = after.observed
         /\ revealCount' = after.count
  /\ revealQueue' = <<>>
  /\ UNCHANGED revealVisible
  /\ UNCHANGED <<dashVars, statsVars, counterVars>>

RevealNext ==
  \/ \E t \in Targets : targetCrosses(t)
  \/ revealCallback

RevealPageInit == RevealInit /\ StatsIdle /\ CountersIdle /\ DashboardNotLoaded

RevealSpec == RevealPageInit /\ [][RevealNext]_vars

\* C18: a target carrying 'in-view' keeps it and is no longer observed, no
\* entry is queued for a target that is no longer observed, and the
\* callback acts on an intersecting entry of a target only if the target
\* was observed and not yet revealed when the callback began; so a target's
\* revealed state changes at most once, from not revealed to revealed.
C18_RevealOnce ==
  /\ [](/\ inView \cap revealObserved = {}
        /\ \A k \in 1..Len(revealQueue) : revealQueue[k].target \in revealObserved)
  /\ [][inView \subseteq inView']_vars
  /\ [][\A t \in Targets :
          revealCount'[t] > revealCount[t] =>
            /\ t \in revealObserved /\ t \notin inView
            /\ t \in inView' /\ t \notin revealObserved']_vars

\* a target is revealed although it has left the viewport again, while
\* another one is still waiting to be seen
C18_Witness ==
  \E t \in Targets :
    /\ t \in inView
    /\ t \notin revealObserved
    /\ t \notin revealVisible
    /\ revealCount[t] = 1
    /\ \E u \in Targets : u \in revealObserved /\ revealCount[u] = 0

\* ------------------------------------------------------------------------
\* Properties of the start button
\* ------------------------------------------------------------------------
TitleTimers ==
  {k \in 1..Len(timeouts) : timeouts[k].cb \in {"ctaStarted", "ctaRestore"}}

\* C22: whenever no 1 s or 2 s feedback timer of the start button is
\* pending, the title of the button is the text it had before the first
\* click.
C22_TitleRestored == TitleTimers = {} => ctaTitle = "Start"

====
